---- MODULE Spec2Model ----
(***************************************************************************)
(* Model of the hybrid video recommender: the LightGCN graph builder and   *)
(* inference function (app/recommendations/gnn_recommender.py), the        *)
(* training job (train_gnn.py) and the /feed hybrid selector (app/main.py).*)
(***************************************************************************)
EXTENDS Integers, Sequences, FiniteSets, TLC

(***************************************************************************)
(* Bounds of the model.                                                    *)
(***************************************************************************)
MaxUsers == 2
MaxPosts == 2
MaxInter == 2
MaxLimit == 3
MaxScore == 1
MaxCount == 6

None == [none |-> TRUE]

Range(f) == {f[x] : x \in DOMAIN f}

Max(S) == CHOOSE x \in S : \A y \in S : y <= x

RECURSIVE SumOver(_, _)
SumOver(S, f) ==
  IF S = {} THEN 0
  ELSE LET x == CHOOSE y \in S : TRUE IN f[x] + SumOver(S \ {x}, f)

\* All orders in which a query without ORDER BY may list the rows S.
Orders(S) ==
  {s \in [1..Cardinality(S) -> S] : \A i, j \in DOMAIN s : i # j => s[i] # s[j]}

(***************************************************************************)
(* The interaction store (app/models.py).                                  *)
(***************************************************************************)
UserIds == {100 + k : k \in 1..MaxUsers}
PostIds == {200 + k : k \in 1..MaxPosts}

\* users.username is UNIQUE NOT NULL: one name per user row.
UsernameOf(id) == <<"user", id>>
UnknownUsername == <<"user", 0>>
Usernames == {UsernameOf(id) : id \in UserIds} \cup {UnknownUsername}

User(id) == [id |-> id, username |-> UsernameOf(id)]
Post(id) == [id |-> id]
Interaction(u, p, t) == [user_id |-> u, post_id |-> p, interaction_type |-> t]

\* The interaction types the collector stores (data_collector.py).
InteractionTypes == {"view", "like", "inspire", "rating"}

\* Tables with n users 101..100+n and m posts 201..200+m, listed in any order,
\* and at most k interaction rows of the given types. A row may name a user or
\* a post that has no row of its own (no store enforces the foreign keys here).
UserTables == UNION {Orders({User(100 + k) : k \in 1..n}) : n \in 0..MaxUsers}
PostTables == UNION {Orders({Post(200 + k) : k \in 1..m}) : m \in 0..MaxPosts}
InteractionRows(types) ==
  {Interaction(u, p, t) : u \in UserIds, p \in PostIds, t \in types}
InteractionTables(types, k) ==
  {S \in SUBSET InteractionRows(types) : Cardinality(S) <= k}

(***************************************************************************)
(* Float values met by the graph normalisation: 0, +inf, NaN and the       *)
(* positive reals n^(-1/2), n >= 1 (1.0 is n = 1).                         *)
(***************************************************************************)
FZero == [k |-> "zero", n |-> 0]
FInf == [k |-> "inf", n |-> 0]
FNaN == [k |-> "nan", n |-> 0]
FInvSqrt(n) == [k |-> "fin", n |-> n]
FOne == FInvSqrt(1)

IsFinite(x) == x.k \in {"zero", "fin"}

\* IEEE product on these values.
FMul(a, b) ==
  IF a.k = "nan" \/ b.k = "nan" THEN FNaN
  ELSE IF (a.k = "zero" /\ b.k = "inf") \/ (a.k = "inf" /\ b.k = "zero") THEN FNaN
  ELSE IF a.k = "zero" \/ b.k = "zero" THEN FZero
  ELSE IF a.k = "inf" \/ b.k = "inf" THEN FInf
  ELSE FInvSqrt(a.n * b.n)

\* np.power(rowsum, -0.5): a zero row sum gives inf.
PowerMinusHalf(d) == IF d = 0 THEN FInf ELSE FInvSqrt(d)

(***************************************************************************)
(* build_graph_from_db                                                     *)
(***************************************************************************)
\* {row.id: i for i, row in enumerate(rows)}: a later row wins a repeated key.
IndexMap(rows) ==
  [id \in {rows[i].id : i \in DOMAIN rows} |->
     Max({i \in DOMAIN rows : rows[i].id = id}) - 1]

\* The variant of InverseMap that is off by one position.
InverseMapShifted(m) ==
  [v \in Range(m) |-> CHOOSE k \in DOMAIN m : m[k] = (v + 1) % Cardinality(DOMAIN m)]

\* {v: k for k, v in m.items()}
InverseMap(m) == [v \in Range(m) |-> CHOOSE k \in DOMAIN m : m[k] = v]

\* {user.username: user_map[user.id] for user in users if user.id in user_map}
UsernameMap(us, user_map) ==
  LET kept == {i \in DOMAIN us : us[i].id \in DOMAIN user_map}
  IN [nm \in {us[i].username : i \in kept} |->
        user_map[us[Max({i \in kept : us[i].username = nm})].id]]

\* The loop over the interaction rows: R[uidx, pidx] = 1.0 and
\* user_interactions[uidx].add(pidx) for every row whose user and post are known.
RECURSIVE ScanInteractions(_, _, _, _)
ScanInteractions(rows, user_map, post_map, acc) ==
  IF rows = {} THEN acc
  ELSE LET inter == CHOOSE r \in rows : TRUE
           rest == rows \ {inter}
       IN IF inter.user_id \in DOMAIN user_map /\ inter.post_id \in DOMAIN post_map
          THEN LET uidx == user_map[inter.user_id]
                   pidx == post_map[inter.post_id]
               IN ScanInteractions(rest, user_map, post_map,
                    [R |-> [acc.R EXCEPT ![<<uidx, pidx>>] = 1],
                     user_interactions |->
                       [acc.user_interactions EXCEPT ![uidx] = @ \cup {pidx}]])
          ELSE ScanInteractions(rest, user_map, post_map, acc)

\* The variant of Adjacency that fills the upper-right block only (no R.T).
AdjacencyUpperOnly(R, num_users, num_posts) ==
  LET N == 0..(num_users + num_posts - 1)
  IN [c \in N \X N |->
        IF c[1] < num_users /\ c[2] >= num_users THEN R[<<c[1], c[2] - num_users>>]
        ELSE 0]

\* adj_mat[:num_users, num_users:] = R; adj_mat[num_users:, :num_users] = R.T
Adjacency(R, num_users, num_posts) ==
  LET N == 0..(num_users + num_posts - 1)
  IN [c \in N \X N |->
        IF c[1] < num_users /\ c[2] >= num_users THEN R[<<c[1], c[2] - num_users>>]
        ELSE IF c[1] >= num_users /\ c[2] < num_users THEN R[<<c[2], c[1] - num_users>>]
        ELSE 0]

\* rowsum = adj_mat.sum(axis=1)
RowSum(adj_mat, n) ==
  [i \in 0..(n - 1) |-> SumOver(0..(n - 1), [j \in 0..(n - 1) |-> adj_mat[<<i, j>>]])]

\* The variant of DInv that keeps the infinite factors of zero-degree nodes.
DInvKeepInf(rowsum) == [i \in DOMAIN rowsum |-> PowerMinusHalf(rowsum[i])]

\* d_inv = np.power(rowsum, -0.5); d_inv[np.isinf(d_inv)] = 0.
DInv(rowsum) ==
  [i \in DOMAIN rowsum |->
     LET d == PowerMinusHalf(rowsum[i]) IN IF d.k = "inf" THEN FZero ELSE d]

\* norm_adj = d_mat.dot(adj_mat).dot(d_mat): a sparse product, so only the
\* stored (nonzero) entries of adj_mat are multiplied.
NormAdj(adj_mat, d_inv) ==
  [c \in DOMAIN adj_mat |->
     IF adj_mat[c] = 0 THEN FZero
     ELSE FMul(FMul(d_inv[c[1]], FOne), d_inv[c[2]])]

\* The variant of the emptiness test that only looks at the user list.
GraphIsEmptyUsersOnly(us, ps) == us = <<>>

\* if not users or not posts: raise ValueError
GraphIsEmpty(us, ps) == us = <<>> \/ ps = <<>>

BuildGraphFromDb(us, ps, rows) ==
  IF GraphIsEmpty(us, ps)
  THEN [raised |-> "ValueError"]
  ELSE
    LET user_map == IndexMap(us)
        post_map == IndexMap(ps)
        num_users == Len(us)
        num_posts == Len(ps)
        scan == ScanInteractions(rows, user_map, post_map,
                  [R |-> [c \in (0..(num_users - 1)) \X (0..(num_posts - 1)) |-> 0],
                   user_interactions |-> [u \in 0..(num_users - 1) |-> {}]])
        adj_mat == Adjacency(scan.R, num_users, num_posts)
        d_inv == DInv(RowSum(adj_mat, num_users + num_posts))
    IN [raised |-> "none",
        graph |-> NormAdj(adj_mat, d_inv),
        adj_mat |-> adj_mat,
        d_inv |-> d_inv,
        metadata |->
          [num_users |-> num_users, num_posts |-> num_posts,
           user_map |-> user_map, post_map |-> post_map,
           user_inv_map |-> InverseMap(user_map),
           post_inv_map |-> InverseMap(post_map),
           username_map |-> UsernameMap(us, user_map)],
        user_interactions |-> scan.user_interactions]


(***************************************************************************)
(* generate_gnn_recommendations                                            *)
(***************************************************************************)
\* ratings[0, list(seen_items)] = -np.inf: below every score.
NegInf == -1

\* The value of a model's graph attribute that refers to the sparse tensor g
\* (the attribute is None until a graph is assigned).
GraphRef(g) == [tensor |-> g]

\* The rows of scores trained embedding tables can give for the items 0..n-1
\* (dot products of a user vector with the item vectors): any values.
ScoreRows(n) == [0..(n - 1) -> 0..MaxScore]

\* model.get_user_ratings(torch.tensor([user_idx])): the scores of all items
\* for the user. They depend on the embedding tables and the graph alone, so a
\* model gives the same row at every call; the tables of the models drawn here
\* hold one vector for every user.
GetUserRatings(m, user_idx) == m.scores

\* The variant of UsernameKnown that takes every name as known.
UsernameKnownAlways(username, username_map) == TRUE

\* username in username_map
UsernameKnown(username, username_map) == username \in DOMAIN username_map

\* if seen_items: ratings[0, list(seen_items)] = -np.inf
MaskSeen(ratings, seen_items) ==
  [i \in DOMAIN ratings |-> IF i \in seen_items THEN NegInf ELSE ratings[i]]

\* The variant of TopK that returns the k smallest entries, smallest first.
BottomK(ratings, k) ==
  {s \in [1..k -> DOMAIN ratings] :
     /\ \A i, j \in 1..k : i < j => (s[i] # s[j] /\ ratings[s[i]] <= ratings[s[j]])
     /\ \A x \in DOMAIN ratings \ Range(s) : \A i \in 1..k : ratings[x] >= ratings[s[i]]}

\* torch.topk(ratings, k): the indices of the k largest entries, largest first;
\* entries of equal score come in an order the library does not fix.
TopK(ratings, k) ==
  {s \in [1..k -> DOMAIN ratings] :
     /\ \A i, j \in 1..k : i < j => (s[i] # s[j] /\ ratings[s[i]] >= ratings[s[j]])
     /\ \A x \in DOMAIN ratings \ Range(s) : \A i \in 1..k : ratings[x] <= ratings[s[i]]}

\* [post_inv_map[idx] for idx in top_indices if idx in post_inv_map]
MapPostIds(top_indices, post_inv_map) ==
  LET kept == SelectSeq(top_indices, LAMBDA idx : idx \in DOMAIN post_inv_map)
  IN [i \in 1..Len(kept) |-> post_inv_map[kept[i]]]

Returned(result, m, ratings) ==
  [raised |-> "none", result |-> result, model |-> m, ratings |-> ratings]
Raised(error, m) == [raised |-> error, result |-> <<>>, model |-> m, ratings |-> <<>>]

\* The outcomes of generate_gnn_recommendations(username, model, graph_data,
\* limit): one per order top-k may give to items of equal score.
GenerateGnnRecommendations(username, m, gd, limit) ==
  IF gd = None
  THEN {Raised("TypeError", m)}       \* graph, metadata, user_interactions = None
  ELSE
    LET m1 == [m EXCEPT !.graph = GraphRef(gd.graph)]           \* model.graph = graph
        username_map == gd.metadata.username_map
    IN IF ~UsernameKnown(username, username_map)
       THEN {Returned(<<>>, m1, <<>>)}
       ELSE IF username \notin DOMAIN username_map
       THEN {Raised("KeyError", m1)}
       ELSE
         LET user_idx == username_map[username]
             seen_items == IF user_idx \in DOMAIN gd.user_interactions
                           THEN gd.user_interactions[user_idx] ELSE {}
         IN IF m.num_users + m.num_items #
                 gd.metadata.num_users + gd.metadata.num_posts
            THEN {Raised("RuntimeError", m1)}         \* torch.sparse.mm: shapes
            ELSE IF user_idx >= m.num_users \/ ~(seen_items \subseteq 0..(m.num_items - 1))
            THEN {Raised("IndexError", m1)}
            ELSE
              LET ratings == MaskSeen(GetUserRatings(m1, user_idx), seen_items)
              IN IF limit > m.num_items
                 THEN {Raised("RuntimeError", m1)}    \* topk: k out of range
                 ELSE IF limit = 1
                 \* squeeze() of a 1x1 tensor is a scalar and tolist() an int:
                 \* the comprehension over it raises.
                 THEN {Raised("TypeError", m1)}
                 ELSE {Returned(MapPostIds(top, gd.metadata.post_inv_map), m1, ratings) :
                         top \in TopK(ratings, limit)}

(***************************************************************************)
(* train_gnn.py                                                            *)
(***************************************************************************)
EPOCHS == 50
MODEL_SAVE_PATH == "lightgcn_model.pth"

\* The classes of value the scalar loss of an epoch can take.
LossValues == {"finite", "nan", "inf"}

\* torch.isnan(loss)
IsNan(l) == l = "nan"

\* total_interactions = sum(len(v) for v in user_interactions.values())
TotalInteractions(user_interactions) ==
  SumOver(DOMAIN user_interactions,
          [u \in DOMAIN user_interactions |-> Cardinality(user_interactions[u])])

\* The variant of the sanity check that never stops the run.
NoInteractionsNever(total_interactions) == FALSE

\* if total_interactions == 0: ... return
NoInteractions(total_interactions) == total_interactions = 0

RECURSIVE Ascending(_)
Ascending(S) ==
  IF S = {} THEN <<>>
  ELSE LET m == CHOOSE x \in S : \A y \in S : x <= y IN <<m>> \o Ascending(S \ {m})

\* The (u_idx, pos_p_idx) pairs in the order the two loops of get_bpr_data
\* visit them: users in index order, a user's positives in set order.
RECURSIVE PositiveEdges(_, _)
PositiveEdges(user_interactions, us) ==
  IF us = <<>> THEN <<>>
  ELSE LET u == Head(us)
           ps == Ascending(user_interactions[u])
       IN [i \in 1..Len(ps) |-> <<u, ps[i]>>] \o PositiveEdges(user_interactions, Tail(us))

\* The variant of the rejection test that keeps every draw.
RejectedNever(neg_p_idx, pos_p_indices) == FALSE

\* while neg_p_idx in pos_p_indices: the draw is thrown away.
Rejected(neg_p_idx, pos_p_indices) == neg_p_idx \in pos_p_indices

\* optim.Adam(model.parameters(), lr=LR), seen through the operations applied
\* to the parameters and their gradients: ops lists the operations since the
\* last zero_grad, applied the operations that led to the last update.
Adam == [steps |-> 0, ops |-> <<>>, applied |-> <<>>]

\* optimizer.zero_grad()
ZeroGrad(opt) == [opt EXCEPT !.ops = <<>>]
\* users_emb, items_emb = model.computer()
Forward(opt) == [opt EXCEPT !.ops = Append(@, "forward")]
\* loss = ranking_loss + L2_REG * reg_loss
ComputeLoss(opt) == [opt EXCEPT !.ops = Append(@, "loss")]
\* loss.backward()
Backward(opt) == [opt EXCEPT !.ops = Append(@, "backward")]
\* torch.nn.utils.clip_grad_norm_(model.parameters(), max_norm=1.0)
ClipGradNorm(opt) == [opt EXCEPT !.ops = Append(@, "clip")]
\* optimizer.step()
OptimizerStep(opt) ==
  [opt EXCEPT !.steps = @ + 1, !.ops = Append(@, "step"), !.applied = Append(opt.ops, "step")]

\* The variant of the iteration that clips the gradients after the update.
TrainingStepClipsLate(opt) ==
  ClipGradNorm(OptimizerStep(Backward(ComputeLoss(Forward(ZeroGrad(opt))))))

\* The body of one iteration of the training loop, lines 102-117.
TrainingStep(opt) ==
  OptimizerStep(ClipGradNorm(Backward(ComputeLoss(Forward(ZeroGrad(opt))))))

\* LightGCN(num_users, num_items): freshly initialised embedding tables,
\* graph = None.
LightGCN(num_users, num_items) ==
  [num_users |-> num_users, num_items |-> num_items, graph |-> None, updates |-> 0,
   scores |-> [i \in 0..(num_items - 1) |-> 0]]

\* No file at MODEL_SAVE_PATH.
NoArtifact == [exists |-> FALSE]

\* torch.save(model.state_dict(), MODEL_SAVE_PATH): the two embedding tables.
SavedStateDict(m) ==
  [exists |-> TRUE, num_users |-> m.num_users, num_items |-> m.num_items,
   updates |-> m.updates, run |-> "this"]

(***************************************************************************)
(* State.                                                                  *)
(***************************************************************************)
VARIABLES
  users,         \* db.query(User).all(), in the order the store lists the rows
  posts,         \* db.query(Post).all()
  interactions,  \* the rows of the interactions table
  built,         \* what the last build_graph_from_db call returned or raised
  artifact,      \* the file lightgcn_model.pth
  pc,            \* where train_gnn.main is
  graph_data,    \* main: graph, metadata, user_interactions
  model,         \* main: the LightGCN object
  optimizer,     \* main: the Adam optimiser
  bpr,           \* the locals of get_bpr_data
  training_data, \* main: users, pos_items, neg_items
  epoch,         \* number of loop iterations started
  loss,          \* the loss of the last iteration
  report,        \* what main printed when it ended
  diverged,      \* history: an earlier iteration's loss was NaN or Inf
  samplings,     \* history: number of get_bpr_data calls that returned
  GNN_MODEL,     \* app.main: the model the server holds, or None
  GNN_GRAPH_DATA,\* app.main: the graph data the server holds, or None
  call,          \* the last generate_gnn_recommendations call and its outcome
  feed,          \* the last /feed request and its response
  started,       \* app.main: startup_event has run and requests are served
  inflight,      \* the generate_gnn_recommendations calls in progress, by thread
  upstream,      \* data_collector: what the SocialVerse API endpoints return
  collector,     \* data_collector: where populate_database is, and its locals
  fetch          \* the paginated fetch in progress: its arguments and locals

dbVars == <<users, posts, interactions>>
trainVars ==
  <<artifact, pc, graph_data, model, optimizer, bpr, training_data, epoch, loss,
    report, diverged, samplings>>
serveVars == <<GNN_MODEL, GNN_GRAPH_DATA, call, feed, started, inflight>>
collectVars == <<upstream, collector, fetch>>
vars == <<dbVars, collectVars, built, trainVars, serveVars>>

\* The artifact a previous run left behind.
PriorArtifact ==
  [exists |-> TRUE, num_users |-> 1, num_items |-> 1, updates |-> EPOCHS, run |-> "prior"]

TrainIdle ==
  /\ pc = "start"
  /\ graph_data = None
  /\ model = None
  /\ optimizer = None
  /\ bpr = None
  /\ training_data = None
  /\ epoch = 0
  /\ loss = "none"
  /\ report = "none"
  /\ diverged = FALSE
  /\ samplings = 0

\* The threads of the server's pool that run request handlers.
Threads == {"t1", "t2"}

\* No call in progress.
NoCalls == [t \in Threads |-> None]

ServeIdle ==
  /\ GNN_MODEL = None
  /\ GNN_GRAPH_DATA = None
  /\ call = None
  /\ feed = None
  /\ started = FALSE
  /\ inflight = NoCalls

\* The collector is not run.
CollectIdle ==
  /\ upstream = None
  /\ collector = None
  /\ fetch = None

(***************************************************************************)
(* The graph builder run on its own.                                       *)
(***************************************************************************)
\* The two interaction types the graph-builder runs draw their rows from.
BuildTypes == {"view", "like"}

Init ==
  /\ users \in UserTables
  /\ posts \in PostTables
  /\ interactions \in InteractionTables(BuildTypes, MaxInter)
  /\ built = None
  /\ artifact = NoArtifact
  /\ TrainIdle
  /\ ServeIdle
  /\ CollectIdle

Build ==
  /\ built = None
  /\ built' = BuildGraphFromDb(users, posts, interactions)
  /\ UNCHANGED <<dbVars, collectVars, trainVars, serveVars>>

Next == Build

Spec == Init /\ [][Next]_vars

(***************************************************************************)
(* The training job, train_gnn.main.                                       *)
(***************************************************************************)
\* The stores of the training runs: rows listed in id order, "view" rows only.
TrainInit ==
  /\ \E n \in 0..MaxUsers : users = [i \in 1..n |-> User(100 + i)]
  /\ \E m \in 0..MaxPosts : posts = [i \in 1..m |-> Post(200 + i)]
  /\ interactions \in InteractionTables({"view"}, MaxInter)
  /\ built = None
  /\ artifact \in {NoArtifact, PriorArtifact}
  /\ TrainIdle
  /\ ServeIdle
  /\ CollectIdle

\* Lines 60-91: build the graph, the sanity check, the model and the optimiser,
\* and the entry into get_bpr_data.
TrainStart ==
  /\ pc = "start"
  /\ LET g == BuildGraphFromDb(users, posts, interactions)
     IN /\ built' = g
        /\ IF g.raised = "ValueError"
           THEN /\ report' = "value_error"
                /\ pc' = "done"
                /\ UNCHANGED <<graph_data, model, optimizer, bpr>>
           ELSE IF NoInteractions(TotalInteractions(g.user_interactions))
           THEN /\ graph_data' = g
                /\ report' = "no_interactions"
                /\ pc' = "done"
                /\ UNCHANGED <<model, optimizer, bpr>>
           ELSE /\ graph_data' = g
                /\ model' = [LightGCN(g.metadata.num_users, g.metadata.num_posts)
                               EXCEPT !.graph = GraphRef(g.graph)]
                /\ optimizer' = Adam
                /\ bpr' = [todo |-> PositiveEdges(g.user_interactions,
                                      Ascending(DOMAIN g.user_interactions)),
                           all_item_indices |-> 0..(g.metadata.num_posts - 1),
                           triplets |-> <<>>]
                /\ report' = "none"
                /\ pc' = "sampling"
  /\ UNCHANGED <<dbVars, collectVars, artifact, training_data, epoch, loss, diverged,
                 samplings, serveVars>>

\* One draw of the rejection loop of get_bpr_data for the edge at hand:
\* neg_p_idx = np.random.choice(all_item_indices); a draw that is one of the
\* user's positives is thrown away and drawn again.
SampleNegative ==
  /\ pc = "sampling"
  /\ bpr.todo # <<>>
  /\ LET e == Head(bpr.todo)
         pos_p_indices == graph_data.user_interactions[e[1]]
     IN \E neg_p_idx \in bpr.all_item_indices :
          IF Rejected(neg_p_idx, pos_p_indices)
          THEN UNCHANGED bpr
          ELSE bpr' = [bpr EXCEPT !.todo = Tail(@),
                                  !.triplets = Append(@, <<e[1], e[2], neg_p_idx>>)]
  /\ UNCHANGED <<dbVars, collectVars, built, artifact, pc, graph_data, model, optimizer,
                 training_data, epoch, loss, report, diverged, samplings,
                 serveVars>>

\* get_bpr_data returns (lines 52-55) and main goes on (lines 93-99).
SamplingDone ==
  /\ pc = "sampling"
  /\ bpr.todo = <<>>
  /\ IF bpr.triplets = <<>>
     THEN /\ training_data' = None
          /\ report' = "no_training_data"
          /\ pc' = "done"
     ELSE /\ training_data' =
               [users |-> [i \in DOMAIN bpr.triplets |-> bpr.triplets[i][1]],
                pos_items |-> [i \in DOMAIN bpr.triplets |-> bpr.triplets[i][2]],
                neg_items |-> [i \in DOMAIN bpr.triplets |-> bpr.triplets[i][3]]]
          /\ report' = "none"
          /\ pc' = "loop"
  /\ samplings' = samplings + 1
  /\ UNCHANGED <<dbVars, collectVars, built, artifact, graph_data, model, optimizer, bpr,
                 epoch, loss, diverged, serveVars>>

\* One iteration of the training loop (lines 101-123): forward pass, loss,
\* backward pass, clipping, optimizer.step(), and only then the NaN test.
Epoch ==
  /\ pc = "loop"
  /\ epoch < EPOCHS
  /\ epoch' = epoch + 1
  /\ \E l \in LossValues : loss' = l
  /\ diverged' = (diverged \/ loss \in {"nan", "inf"})
  /\ model' = [model EXCEPT !.updates = @ + 1]
  /\ optimizer' = TrainingStep(optimizer)
  /\ pc' = IF IsNan(loss') \/ epoch' = EPOCHS THEN "after_loop" ELSE "loop"
  /\ UNCHANGED <<dbVars, collectVars, built, artifact, graph_data, bpr, training_data, report,
                 samplings, serveVars>>

\* Lines 126-128: if not torch.isnan(loss): torch.save(model.state_dict(), path)
Finish ==
  /\ pc = "after_loop"
  /\ IF ~IsNan(loss)
     THEN /\ artifact' = SavedStateDict(model)
          /\ report' = "saved"
     ELSE /\ report' = "nan_stop"
          /\ UNCHANGED artifact
  /\ pc' = "done"
  /\ UNCHANGED <<dbVars, collectVars, built, graph_data, model, optimizer, bpr, training_data,
                 epoch, loss, diverged,
                 samplings, serveVars>>

TrainNext == TrainStart \/ SampleNegative \/ SamplingDone \/ Epoch \/ Finish

SpecTrain == TrainInit /\ [][TrainNext]_vars

(***************************************************************************)
(* Properties of the graph builder (checked under Spec).                   *)
(***************************************************************************)
BuildOk == built # None /\ built.raised = "none"

\* Some interaction row links the user listed at position u and the post
\* listed at position p (positions counted from 0).
Linked(u, p) ==
  \E r \in interactions : r.user_id = users[u + 1].id /\ r.post_id = posts[p + 1].id

LinkedPairs ==
  {c \in (0..(Len(users) - 1)) \X (0..(Len(posts) - 1)) : Linked(c[1], c[2])}

\* C8: the adjacency matrix has A[u, nu+p] = A[nu+p, u] = 1 exactly when some
\* interaction row links known user u to known post p, and 0 everywhere else
\* (both diagonal blocks included); so it is symmetric, rows of different types
\* for one pair give one edge, and it has 2 * (number of distinct pairs)
\* nonzero entries.
C8_AdjacencyIsSymmetricBinaryBipartite ==
  BuildOk =>
    LET nu == Len(users)
        np == Len(posts)
        N == 0..(nu + np - 1)
        A == built.adj_mat
    IN /\ DOMAIN A = N \X N
       /\ \A u \in 0..(nu - 1), p \in 0..(np - 1) :
            /\ A[<<u, nu + p>>] = (IF Linked(u, p) THEN 1 ELSE 0)
            /\ A[<<nu + p, u>>] = (IF Linked(u, p) THEN 1 ELSE 0)
       /\ \A i, j \in N : ((i < nu) = (j < nu)) => A[<<i, j>>] = 0
       /\ \A i, j \in N : A[<<i, j>>] = A[<<j, i>>]
       /\ Cardinality({c \in N \X N : A[c] # 0}) = 2 * Cardinality(LinkedPairs)

\* A build in which two rows of different types for one (user, post) pair
\* collapsed into one edge.
C8_Witness ==
  /\ BuildOk
  /\ Cardinality(LinkedPairs) = 1
  /\ Cardinality(interactions) = 2
  /\ \A r \in interactions : r.user_id = users[1].id /\ r.post_id = posts[1].id
  /\ Len(users) = MaxUsers /\ Len(posts) = MaxPosts
  /\ Cardinality({c \in DOMAIN built.adj_mat : built.adj_mat[c] # 0}) = 2

\* Number of neighbours of node i in the adjacency matrix.
Degree(i) ==
  Cardinality({j \in 0..(Len(users) + Len(posts) - 1) : built.adj_mat[<<i, j>>] # 0})

\* C9: in the normalised graph a zero-degree node has normalisation factor 0
\* (never infinite) and an all-zero row and column; every entry is finite; an
\* entry is nonzero exactly where the adjacency matrix is nonzero.
C9_NormalisedGraphFiniteAndZeroForIsolatedNodes ==
  BuildOk =>
    LET N == 0..(Len(users) + Len(posts) - 1)
        G == built.graph
    IN /\ \A i \in N : built.d_inv[i].k # "inf"
       /\ \A i \in N :
            Degree(i) = 0 =>
              /\ built.d_inv[i] = FZero
              /\ \A j \in N : G[<<i, j>>] = FZero /\ G[<<j, i>>] = FZero
       /\ \A i \in N : Degree(i) # 0 => built.d_inv[i] = FInvSqrt(Degree(i))
       /\ \A c \in N \X N :
            /\ IsFinite(G[c])
            /\ (G[c] # FZero) = (built.adj_mat[c] # 0)
            /\ built.adj_mat[c] # 0 => G[c] = FInvSqrt(Degree(c[1]) * Degree(c[2]))

\* A build with an isolated user, an isolated post and an edge.
C9_Witness ==
  /\ BuildOk
  /\ Len(users) = 2 /\ Len(posts) = 2
  /\ Degree(0) = 0
  /\ Degree(1) = 1
  /\ \E p \in 2..3 : Degree(p) = 0
  /\ built.d_inv[0] = FZero

\* C10: the inverse maps invert the forward maps on every ID of the build, the
\* forward maps are bijections onto 0..num_users-1 and 0..num_posts-1, and
\* username_map sends each username where user_map sends that user's ID.
C10_IndexMapsRoundTrip ==
  BuildOk =>
    LET md == built.metadata
        uids == {users[i].id : i \in DOMAIN users}
        pids == {posts[i].id : i \in DOMAIN posts}
    IN /\ DOMAIN md.user_map = uids
       /\ DOMAIN md.post_map = pids
       /\ Range(md.user_map) = 0..(md.num_users - 1)
       /\ Range(md.post_map) = 0..(md.num_posts - 1)
       /\ \A a, b \in uids : md.user_map[a] = md.user_map[b] => a = b
       /\ \A a, b \in pids : md.post_map[a] = md.post_map[b] => a = b
       /\ \A id \in uids : md.user_inv_map[md.user_map[id]] = id
       /\ \A id \in pids : md.post_inv_map[md.post_map[id]] = id
       /\ DOMAIN md.username_map = {users[i].username : i \in DOMAIN users}
       /\ \A i \in DOMAIN users :
            md.username_map[users[i].username] = md.user_map[users[i].id]

\* A build whose store lists the users and the posts out of id order.
C10_Witness ==
  /\ BuildOk
  /\ Len(users) = 2 /\ Len(posts) = 2
  /\ users[1].id > users[2].id
  /\ posts[1].id > posts[2].id
  /\ built.metadata.user_inv_map[0] = users[1].id
  /\ built.metadata.username_map[users[2].username] = 1

(***************************************************************************)
(* Properties of the training job (checked under SpecTrain).               *)
(***************************************************************************)
KnownUserIds == {users[i].id : i \in DOMAIN users}
KnownPostIds == {posts[i].id : i \in DOMAIN posts}

\* The positive edges of the store: (user, post) pairs of rows whose user and
\* post both exist.
PositivePairs ==
  {<<r.user_id, r.post_id>> :
     r \in {x \in interactions : x.user_id \in KnownUserIds /\ x.post_id \in KnownPostIds}}

\* The run wrote no artifact: the file is as it was before the run.
ArtifactUntouched == artifact \in {NoArtifact, PriorArtifact}

\* C3: the artifact is written if and only if the loss was finite at every
\* epoch through the last one; a loss that is NaN or Inf at epoch k stops the
\* loop at epoch k, nothing is written and a prior artifact stays as it was.
C3_NonFiniteLossStopsTrainingAndSavesNothing ==
  /\ ~diverged
  /\ loss \in {"nan", "inf"} => ArtifactUntouched
  /\ report \in {"saved", "nan_stop"} =>
       (~ArtifactUntouched <=> (loss = "finite" /\ epoch = EPOCHS))

\* C4: with users and posts but no positive edge the trainer stops with its
\* no-training-data report, having created no optimiser, run no epoch and
\* written no artifact.
C4_NoPositiveEdgesNoTrainingNoArtifact ==
  (users # <<>> /\ posts # <<>> /\ PositivePairs = {}) =>
    /\ optimizer = None
    /\ model = None
    /\ epoch = 0
    /\ ArtifactUntouched
    /\ pc \in {"start", "done"}
    /\ pc = "done" => report = "no_interactions"

\* A finished run over a store with users, posts and rows, none of which is a
\* positive edge, beside an artifact of an earlier run.
C4_Witness ==
  /\ pc = "done"
  /\ users # <<>> /\ posts # <<>>
  /\ interactions # {}
  /\ PositivePairs = {}
  /\ report = "no_interactions"
  /\ artifact = PriorArtifact

\* C7: with no users or no posts build_graph_from_db raises ValueError and
\* returns nothing, and the training job ends without an epoch and without
\* writing an artifact.
C7_EmptyStoreFailsBuildAndHaltsJob ==
  (users = <<>> \/ posts = <<>>) =>
    /\ pc \in {"start", "done"}
    /\ pc = "done" =>
         /\ built = [raised |-> "ValueError"]
         /\ report = "value_error"
    /\ graph_data = None
    /\ model = None /\ optimizer = None
    /\ epoch = 0
    /\ ArtifactUntouched

\* A finished run over a store with users and rows but no posts.
C7_Witness ==
  /\ pc = "done"
  /\ users # <<>> /\ posts = <<>>
  /\ interactions # {}
  /\ built = [raised |-> "ValueError"]
  /\ artifact = PriorArtifact

(***************************************************************************)
(* The inference function called on a loaded model.                        *)
(***************************************************************************)
\* The model objects a caller can hold for a graph: LightGCN(num_users,
\* num_posts) with trained weights loaded and eval() called (app/main.py,
\* lines 46-52).
LoadedModels(g) ==
  {[LightGCN(g.metadata.num_users, g.metadata.num_posts)
      EXCEPT !.updates = EPOCHS, !.scores = s] : s \in ScoreRows(g.metadata.num_posts)}

\* The stores of the inference runs: at least one user and one post, the users
\* listed in id order, the posts in any order, and "view" rows of the first
\* user only (every other user is cold).
RecInit ==
  /\ \E n \in 1..MaxUsers : users = [i \in 1..n |-> User(100 + i)]
  /\ posts \in PostTables /\ posts # <<>>
  /\ interactions \in
       {S \in InteractionTables({"view"}, MaxInter) : \A r \in S : r.user_id = 101}
  /\ built = None
  /\ artifact = PriorArtifact
  /\ TrainIdle
  /\ GNN_GRAPH_DATA = BuildGraphFromDb(users, posts, interactions)
  /\ GNN_MODEL \in LoadedModels(GNN_GRAPH_DATA)
  /\ call = None
  /\ feed = None
  /\ started = TRUE
  /\ inflight = NoCalls
  /\ CollectIdle

\* One call generate_gnn_recommendations(username, GNN_MODEL, GNN_GRAPH_DATA, limit).
Recommend ==
  /\ \E username \in Usernames, limit \in 1..MaxLimit :
       \E out \in GenerateGnnRecommendations(username, GNN_MODEL, GNN_GRAPH_DATA, limit) :
         /\ call' = [username |-> username, limit |-> limit,
                     ratings |-> out.ratings, raised |-> out.raised,
                     result |-> out.result]
         /\ GNN_MODEL' = out.model
  /\ UNCHANGED <<dbVars, collectVars, built, trainVars, GNN_GRAPH_DATA, feed,
               started, inflight>>

RecNext == Recommend

SpecRec == RecInit /\ [][RecNext]_vars

(***************************************************************************)
(* The /feed endpoint, app.main.get_feed.                                  *)
(***************************************************************************)
INTERACTION_THRESHOLD == 5

\* limit: int = 20, the default get_feed leaves in place.
DefaultLimit == 20

Moods == {"inspired", "sleepy"}
ProjectCodes == {None, [code |-> "flic"]}

\* The variant of UseGnn that sends users above the threshold only to the model.
UseGnnStrictlyAbove(gnn_model, interaction_count) ==
  gnn_model # None /\ interaction_count > INTERACTION_THRESHOLD

\* if GNN_MODEL and interaction_count >= INTERACTION_THRESHOLD
UseGnn(gnn_model, interaction_count) ==
  gnn_model # None /\ interaction_count >= INTERACTION_THRESHOLD

\* db.query(DBInteraction).filter(DBInteraction.user_id == user.id).count()
InteractionCount(user_id) == Cardinality({r \in interactions : r.user_id = user_id})

\* db.query(DBPost).filter(DBPost.id.in_(post_ids)).all(), put back in the
\* order of post_ids.
PostsInOrder(post_ids) ==
  SelectSeq(post_ids, LAMBDA pid : \E i \in DOMAIN posts : posts[i].id = pid)

\* The subsequences of a list of post ids.
SubSeqs(ids) ==
  {SelectSeq(ids, LAMBDA pid : pid \in S) : S \in SUBSET Range(ids)}

\* get_mood_based_recommendations(db, mood): posts whose tags match the mood's
\* keywords, or the most popular posts for a mood without keywords; at most 20.
MoodBasedRecommendations(mood) ==
  LET ids == [i \in DOMAIN posts |-> posts[i].id]
  IN IF mood = "inspired" THEN SubSeqs(ids) ELSE {ids}

\* A request /feed?username=..&mood=..&project_code=.. and its response.
GetFeed ==
  \E username \in Usernames, mood \in Moods, project_code \in ProjectCodes :
    LET found == {i \in DOMAIN users : users[i].username = username}
    IN IF found = {}
       THEN /\ feed' = [username |-> username, status |-> 404, route |-> "none",
                        interaction_count |-> 0, post |-> <<>>]
            /\ UNCHANGED <<dbVars, collectVars, built, trainVars, GNN_MODEL, GNN_GRAPH_DATA, call,
                              started, inflight>>
       ELSE
         LET user == users[CHOOSE i \in found : TRUE]
             interaction_count == InteractionCount(user.id)
         IN IF UseGnn(GNN_MODEL, interaction_count)
            THEN \E out \in GenerateGnnRecommendations(username, GNN_MODEL,
                              GNN_GRAPH_DATA, DefaultLimit) :
                 \E shown \in (IF project_code = None
                               THEN {PostsInOrder(out.result)}
                               ELSE SubSeqs(PostsInOrder(out.result))) :
                   /\ feed' = [username |-> username,
                               status |-> IF out.raised = "none" THEN 200 ELSE 500,
                               route |-> "gnn",
                               interaction_count |-> interaction_count,
                               post |-> IF out.raised = "none" THEN shown ELSE <<>>]
                   /\ GNN_MODEL' = out.model
                   /\ UNCHANGED <<dbVars, collectVars, built, trainVars, GNN_GRAPH_DATA,
                                call, started, inflight>>
            ELSE \E recommended \in MoodBasedRecommendations(mood) :
                 \E shown \in (IF project_code = None
                               THEN {recommended} ELSE SubSeqs(recommended)) :
                   /\ feed' = [username |-> username, status |-> 200,
                               route |-> "mood",
                               interaction_count |-> interaction_count,
                               post |-> shown]
                   /\ UNCHANGED <<dbVars, collectVars, built, trainVars, GNN_MODEL,
                                  GNN_GRAPH_DATA, call, started, inflight>>

\* The rows of the first user in a fixed order: one per (post, type).
TypeOrder == <<"view", "like", "inspire", "rating">>
RowsOfFirstUser(c) ==
  {Interaction(101, 201 + ((k - 1) % MaxPosts), TypeOrder[((k - 1) \div MaxPosts) + 1]) :
     k \in 1..c}

\* The routing decision is a function of the server's model global and of the
\* user's rows: the requests are served with the global drawn from both of its
\* values, None and a model loaded for the store's graph.
RouteInit ==
  /\ \E n \in 1..MaxUsers : users = [i \in 1..n |-> User(100 + i)]
  /\ \E m \in 1..MaxPosts : posts = [i \in 1..m |-> Post(200 + i)]
  /\ \E c \in 0..MaxCount : interactions = RowsOfFirstUser(c)
  /\ built = None
  /\ artifact = PriorArtifact
  /\ TrainIdle
  /\ \/ GNN_MODEL = None /\ GNN_GRAPH_DATA = None
     \/ /\ GNN_GRAPH_DATA = BuildGraphFromDb(users, posts, interactions)
        /\ GNN_MODEL \in LoadedModels(GNN_GRAPH_DATA)
  /\ call = None
  /\ feed = None
  /\ started = TRUE
  /\ inflight = NoCalls
  /\ CollectIdle

RouteNext == GetFeed

SpecRoute == RouteInit /\ [][RouteNext]_vars

(***************************************************************************)
(* Properties of the inference function (checked under SpecRec).           *)
(***************************************************************************)
CallReturned == call # None /\ call.raised = "none"

CallOfKnownUser ==
  call # None /\ call.username \in DOMAIN GNN_GRAPH_DATA.metadata.username_map

\* The interacted set the graph build recorded for the user of the call.
SeenOfCall ==
  GNN_GRAPH_DATA.user_interactions[GNN_GRAPH_DATA.metadata.username_map[call.username]]

ResultIds == IF call = None THEN {} ELSE Range(call.result)

\* C1: no item index of the user's interacted set maps to an identifier that
\* generate_gnn_recommendations returns, whatever the limit.
C1_SeenItemsNeverRecommended ==
  (CallReturned /\ CallOfKnownUser) =>
    \A idx \in SeenOfCall : GNN_GRAPH_DATA.metadata.post_inv_map[idx] \notin ResultIds

\* C5: a call for a username absent from the index map returns the empty
\* list and raises nothing, for every limit.
C5_UnknownUserGetsEmptyList ==
  (call # None /\ ~CallOfKnownUser) => (call.raised = "none" /\ call.result = <<>>)

\* A call for an unknown username with a limit above the number of posts.
C5_Witness ==
  /\ call # None
  /\ call.username = UnknownUsername
  /\ call.limit > Len(posts)
  /\ call.raised = "none"
  /\ call.result = <<>>

\* C6: for a known user the call returns at most `limit` identifiers, none
\* twice, in the order of non-increasing score of their items (the scores
\* top-k ranks, a seen item's being minus infinity).
C6_AtMostLimitDistinctRankedByScore ==
  (CallReturned /\ CallOfKnownUser) =>
    LET res == call.result
        score(id) == call.ratings[GNN_GRAPH_DATA.metadata.post_map[id]]
    IN /\ Len(res) <= call.limit
       /\ \A i, j \in DOMAIN res : i # j => res[i] # res[j]
       /\ \A i \in DOMAIN res : res[i] \in DOMAIN GNN_GRAPH_DATA.metadata.post_map
       /\ \A i, j \in DOMAIN res : i < j => score(res[i]) >= score(res[j])

\* A call that ranked two unseen posts of different scores, the higher one
\* being the post with the larger id.
C6_Witness ==
  /\ CallReturned /\ CallOfKnownUser
  /\ SeenOfCall = {}
  /\ Len(call.result) = 2
  /\ call.result[1] > call.result[2]
  /\ call.ratings[GNN_GRAPH_DATA.metadata.post_map[call.result[1]]]
       > call.ratings[GNN_GRAPH_DATA.metadata.post_map[call.result[2]]]

(***************************************************************************)
(* Properties of the hybrid selector (checked under SpecRoute).            *)
(***************************************************************************)
\* The rows the store holds for the user of the last request.
RowsOfRequester ==
  {r \in interactions :
     \E i \in DOMAIN users : users[i].username = feed.username /\ users[i].id = r.user_id}

C15_OneTripletPerPositiveEdgeWithTrueNegative ==
  training_data # None =>
    LET ui == graph_data.user_interactions
        u == training_data.users
        p == training_data.pos_items
        n == training_data.neg_items
    IN /\ Len(u) = TotalInteractions(ui)
       /\ Len(u) = Cardinality(PositivePairs)
       /\ DOMAIN p = DOMAIN u /\ DOMAIN n = DOMAIN u
       /\ \A a \in DOMAIN ui : \A b \in ui[a] :
            Cardinality({i \in DOMAIN u : u[i] = a /\ p[i] = b}) = 1
       /\ \A i \in DOMAIN u :
            /\ u[i] \in DOMAIN ui
            /\ p[i] \in ui[u[i]]
            /\ n[i] \in 0..(graph_data.metadata.num_posts - 1)
            /\ n[i] \notin ui[u[i]]

\* Triplets returned for two positive edges of two users, the negative of one
\* being the positive of the other.
C15_Witness ==
  /\ training_data # None
  /\ Len(training_data.users) = 2
  /\ training_data.users[1] # training_data.users[2]
  /\ training_data.neg_items[1] = training_data.pos_items[2]
  /\ pc = "loop"

\* C16: the rejection loop of get_bpr_data ends for every positive edge: at
\* each edge it works on, some draw from the item indices is accepted, also
\* for a user whose interacted set covers every item index.
C16_RejectionLoopEndsForEveryEdge ==
  (pc = "sampling" /\ bpr.todo # <<>>) =>
    \E neg_p_idx \in bpr.all_item_indices :
      ~Rejected(neg_p_idx, graph_data.user_interactions[Head(bpr.todo)[1]])

\* C17: the triplets of every epoch come from a sampling pass of their own:
\* when the k-th iteration has run, get_bpr_data has returned at least k times.
C17_NegativesResampledAtEveryEpoch ==
  epoch >= 1 => samplings >= epoch

\* The loss has been finite at every iteration so far.
LossStayedFinite == ~diverged /\ loss \in {"none", "finite"}

\* The run of this job wrote the artifact.
ArtifactWritten == artifact.exists /\ artifact.run = "this"

\* C18: on a run whose loss stays finite the loop makes one parameter update
\* per iteration, each made of forward pass, loss, backward pass, gradient
\* clipping and optimiser update in this order, EPOCHS updates in all; the
\* artifact is written by the last step of the job only, after the last
\* update, and holds the parameters of that update.
C18_FiftyOrderedUpdatesThenOneSave ==
  (LossStayedFinite /\ optimizer # None) =>
    /\ optimizer.steps = epoch
    /\ model.updates = epoch
    /\ epoch <= EPOCHS
    /\ epoch >= 1 =>
         optimizer.applied = <<"forward", "loss", "backward", "clip", "step">>
    /\ pc = "after_loop" => epoch = EPOCHS
    /\ pc # "done" => ~ArtifactWritten
    /\ (pc = "done" /\ training_data # None) =>
         /\ epoch = EPOCHS
         /\ report = "saved"
         /\ artifact = SavedStateDict(model)
         /\ artifact.updates = EPOCHS

\* A finished run of EPOCHS iterations of finite loss that replaced the
\* artifact of an earlier run.
C18_Witness ==
  /\ pc = "done"
  /\ LossStayedFinite /\ loss = "finite"
  /\ epoch = EPOCHS
  /\ optimizer.steps = EPOCHS
  /\ ArtifactWritten
  /\ artifact.updates = EPOCHS

(***************************************************************************)
(* The server: app.main.startup_event, then /feed requests.                *)
(***************************************************************************)
\* The files a training run can have left at GNN_MODEL_PATH: none, or the
\* embedding tables of a model of some user and item counts.
Artifacts ==
  {NoArtifact} \cup
  {[exists |-> TRUE, num_users |-> a, num_items |-> b, updates |-> EPOCHS,
    run |-> "prior"] : a \in 1..MaxUsers, b \in 1..MaxPosts}

\* graph, metadata = build_graph_from_db(db): the returned tuple assigned to
\* two names; a tuple of another length raises ValueError.
UnpackTwo(t) ==
  IF Len(t) = 2
  THEN [raised |-> "none", graph |-> t[1], metadata |-> t[2]]
  ELSE [raised |-> "ValueError"]

\* GNN_MODEL.load_state_dict(torch.load(GNN_MODEL_PATH)) is strict: the saved
\* tables must have the shapes of the model's.
StateDictFits(m, art) == art.num_users = m.num_users /\ art.num_items = m.num_items

\* The variant of startup_event that takes the three values of the build and
\* loads the artifact into the model without comparing shapes.
StartupEventLoadingUnchecked(art, us, ps, rows) ==
  LET g == BuildGraphFromDb(us, ps, rows)
  IN IF art.exists /\ g.raised = "none"
     THEN {[GNN_MODEL |-> m, GNN_GRAPH_DATA |-> g] : m \in LoadedModels(g)}
     ELSE {[GNN_MODEL |-> None, GNN_GRAPH_DATA |-> None]}

\* The variant of startup_event that takes the three values of the build.
StartupEventUnpackingThree(art, us, ps, rows) ==
  LET g == BuildGraphFromDb(us, ps, rows)
  IN IF /\ art.exists
        /\ g.raised = "none"
        /\ StateDictFits(LightGCN(g.metadata.num_users, g.metadata.num_posts), art)
     THEN {[GNN_MODEL |-> m, GNN_GRAPH_DATA |-> g] : m \in LoadedModels(g)}
     ELSE {[GNN_MODEL |-> None, GNN_GRAPH_DATA |-> None]}

\* startup_event: the values it can leave in the two globals. Every exception
\* of the try block ends in GNN_MODEL = None; GNN_GRAPH_DATA keeps what was
\* assigned before the exception.
StartupEvent(art, us, ps, rows) ==
  LET unloaded == [GNN_MODEL |-> None, GNN_GRAPH_DATA |-> None]
  IN IF ~art.exists THEN {unloaded}
     ELSE
       LET g == BuildGraphFromDb(us, ps, rows)
       IN IF g.raised # "none" THEN {unloaded}
          ELSE
            \* build_graph_from_db returns graph_tensor, metadata, user_interactions
            LET two == UnpackTwo(<<g.graph, g.metadata, g.user_interactions>>)
            IN IF two.raised # "none" THEN {unloaded}
               ELSE
                 \* GNN_GRAPH_DATA = (graph, metadata)
                 LET gd == <<two.graph, two.metadata>>
                     m == LightGCN(two.metadata.num_users, two.metadata.num_posts)
                 IN IF ~StateDictFits(m, art)
                    THEN {[GNN_MODEL |-> None, GNN_GRAPH_DATA |-> gd]}
                    ELSE {[GNN_MODEL |-> [m EXCEPT !.updates = art.updates, !.scores = s],
                           GNN_GRAPH_DATA |-> gd] :
                            s \in ScoreRows(m.num_items)}

\* The server before startup: a store of any size, the first user's rows, and
\* whatever file is at GNN_MODEL_PATH.
ServeInit ==
  /\ \E n \in 0..MaxUsers : users = [i \in 1..n |-> User(100 + i)]
  /\ \E m \in 0..MaxPosts : posts = [i \in 1..m |-> Post(200 + i)]
  /\ \E c \in 0..MaxCount : interactions = RowsOfFirstUser(c)
  /\ built = None
  /\ artifact \in Artifacts
  /\ TrainIdle
  /\ ServeIdle
  /\ CollectIdle

Startup ==
  /\ ~started
  /\ \E out \in StartupEvent(artifact, users, posts, interactions) :
       /\ GNN_MODEL' = out.GNN_MODEL
       /\ GNN_GRAPH_DATA' = out.GNN_GRAPH_DATA
  /\ started' = TRUE
  /\ UNCHANGED <<dbVars, collectVars, built, trainVars, call, feed, inflight>>

\* Requests are served once startup has completed.
ServeFeed == started /\ GetFeed

ServeNext == Startup \/ ServeFeed

SpecServe == ServeInit /\ [][ServeNext]_vars

(***************************************************************************)
(* Properties of the server (checked under SpecServe).                     *)
(***************************************************************************)
\* The artifact holds tables of the sizes of the store's graph.
ArtifactFitsStore ==
  artifact.exists /\ artifact.num_users = Len(users) /\ artifact.num_items = Len(posts)

\* The requester of the last request has a row in users.
RequesterExists == \E i \in DOMAIN users : users[i].username = feed.username

\* C11: after startup, an artifact whose user or item count differs from the
\* counts of the graph built from the store leaves GNN_MODEL = None; a model
\* the server holds has the sizes of the graph and of the artifact and the
\* artifact's weights; and a request is served by the model only then.
C11_MismatchedArtifactIsNeverLoaded ==
  started =>
    /\ (artifact.exists /\ ~ArtifactFitsStore) => GNN_MODEL = None
    /\ GNN_MODEL # None =>
         /\ ArtifactFitsStore
         /\ GNN_MODEL.num_users = Len(users) /\ GNN_MODEL.num_items = Len(posts)
         /\ GNN_MODEL.updates = artifact.updates
    /\ (feed # None /\ feed.route = "gnn") => (GNN_MODEL # None /\ ArtifactFitsStore)

\* A request of a user with 5 rows or more, served after a startup that found
\* an artifact of other counts than the store's.
C11_Witness ==
  /\ started
  /\ users # <<>> /\ posts # <<>>
  /\ artifact.exists /\ ~ArtifactFitsStore
  /\ GNN_MODEL = None
  /\ feed # None
  /\ feed.interaction_count >= INTERACTION_THRESHOLD
  /\ feed.status = 200

\* C12: whatever startup left in the model globals, a /feed request of an
\* existing user gets a success response (only an unknown username gets 404),
\* and when no model is loaded, the load having failed or the artifact being
\* absent, the response comes from the fallback recommender.
C12_FeedOfExistingUserAlwaysSucceeds ==
  (started /\ feed # None) =>
    /\ feed.status = 404 <=> ~RequesterExists
    /\ RequesterExists =>
         /\ feed.status = 200
         /\ feed.route \in {"gnn", "mood"}
         /\ GNN_MODEL = None => feed.route = "mood"

\* A request of a user with 5 rows or more answered with posts by the fallback
\* recommender after the load of a fitting artifact failed.
C12_Witness ==
  /\ started
  /\ ArtifactFitsStore
  /\ GNN_MODEL = None
  /\ feed # None /\ RequesterExists
  /\ feed.interaction_count >= INTERACTION_THRESHOLD
  /\ feed.status = 200
  /\ feed.route = "mood"
  /\ feed.post # <<>>

\* C13: when the artifact exists, the store holds a user and a post and the
\* counts match, startup ends with a model and the graph data in the globals,
\* and a later request of a user with 5 rows or more is served by the model.
C13_StartupLoadsModelAndGraphData ==
  (started /\ users # <<>> /\ posts # <<>> /\ ArtifactFitsStore) =>
    /\ GNN_MODEL # None
    /\ GNN_GRAPH_DATA # None
    /\ (feed # None /\ RequesterExists
          /\ feed.interaction_count >= INTERACTION_THRESHOLD) => feed.route = "gnn"

(***************************************************************************)
(* generate_gnn_recommendations run by several request threads at once on  *)
(* the server's one model object and graph data.                           *)
(***************************************************************************)
\* Lines 133-140 in thread t: the graph data is unpacked, the graph is
\* assigned to the shared model, an unknown username returns [].
CallEnter(t) ==
  /\ IF inflight[t] = None THEN TRUE ELSE inflight[t].pc = "done"
  /\ \E username \in Usernames, limit \in 1..MaxLimit :
       IF GNN_GRAPH_DATA = None
       THEN /\ inflight' = [inflight EXCEPT ![t] =
                 [pc |-> "done", username |-> username, limit |-> limit,
                  raised |-> "TypeError", result |-> <<>>]]
            /\ UNCHANGED GNN_MODEL
       ELSE
         LET username_map == GNN_GRAPH_DATA.metadata.username_map
         IN /\ GNN_MODEL' = [GNN_MODEL EXCEPT !.graph = GraphRef(GNN_GRAPH_DATA.graph)]
            /\ inflight' = [inflight EXCEPT ![t] =
                 IF ~UsernameKnown(username, username_map)
                 THEN [pc |-> "done", username |-> username, limit |-> limit,
                       raised |-> "none", result |-> <<>>]
                 ELSE [pc |-> "ratings", username |-> username, limit |-> limit,
                       user_idx |-> username_map[username]]]
  /\ UNCHANGED <<dbVars, collectVars, built, trainVars, GNN_GRAPH_DATA, call, feed,
                 started>>

\* Line 143 in thread t: model.get_user_ratings reads the graph and the
\* embedding tables the shared model holds at this moment.
CallRatings(t) ==
  /\ inflight[t] # None
  /\ inflight[t].pc = "ratings"
  /\ LET c == inflight[t]
         m == GNN_MODEL
         fail(e) == [pc |-> "done", username |-> c.username, limit |-> c.limit,
                     raised |-> e, result |-> <<>>]
     IN inflight' = [inflight EXCEPT ![t] =
          IF m.graph = None THEN fail("TypeError")
          ELSE IF m.num_users + m.num_items #
                    GNN_GRAPH_DATA.metadata.num_users + GNN_GRAPH_DATA.metadata.num_posts
          THEN fail("RuntimeError")
          ELSE IF c.user_idx >= m.num_users THEN fail("IndexError")
          ELSE [pc |-> "topk", username |-> c.username, limit |-> c.limit,
                user_idx |-> c.user_idx, ratings |-> GetUserRatings(m, c.user_idx)]]
  /\ UNCHANGED <<dbVars, collectVars, built, trainVars, GNN_MODEL, GNN_GRAPH_DATA, call,
                 feed, started>>

\* Lines 146-157 in thread t: the seen items are masked in the call's own
\* ratings tensor, top-k is taken and mapped to post ids.
CallReturn(t) ==
  /\ inflight[t] # None
  /\ inflight[t].pc = "topk"
  /\ LET c == inflight[t]
         user_interactions == GNN_GRAPH_DATA.user_interactions
         seen_items == IF c.user_idx \in DOMAIN user_interactions
                       THEN user_interactions[c.user_idx] ELSE {}
         done(e, r) == [pc |-> "done", username |-> c.username, limit |-> c.limit,
                        raised |-> e, result |-> r]
     IN IF ~(seen_items \subseteq DOMAIN c.ratings)
        THEN inflight' = [inflight EXCEPT ![t] = done("IndexError", <<>>)]
        ELSE IF c.limit > Cardinality(DOMAIN c.ratings)
        THEN inflight' = [inflight EXCEPT ![t] = done("RuntimeError", <<>>)]
        ELSE IF c.limit = 1
        THEN inflight' = [inflight EXCEPT ![t] = done("TypeError", <<>>)]
        ELSE \E top \in TopK(MaskSeen(c.ratings, seen_items), c.limit) :
               inflight' = [inflight EXCEPT ![t] =
                 done("none", MapPostIds(top, GNN_GRAPH_DATA.metadata.post_inv_map))]
  /\ UNCHANGED <<dbVars, collectVars, built, trainVars, GNN_MODEL, GNN_GRAPH_DATA, call,
                 feed, started>>

ConcNext == \E t \in Threads : CallEnter(t) \/ CallRatings(t) \/ CallReturn(t)

\* The server with a model loaded for its store: every user and post of the
\* bounds, and one "view" row, of the first user for the first post.
ConcInit ==
  /\ users = [i \in 1..MaxUsers |-> User(100 + i)]
  /\ posts = [i \in 1..MaxPosts |-> Post(200 + i)]
  /\ interactions = {Interaction(101, 201, "view")}
  /\ built = None
  /\ artifact = PriorArtifact
  /\ TrainIdle
  /\ GNN_GRAPH_DATA = BuildGraphFromDb(users, posts, interactions)
  /\ GNN_MODEL \in LoadedModels(GNN_GRAPH_DATA)
  /\ call = None
  /\ feed = None
  /\ started = TRUE
  /\ inflight = NoCalls
  /\ CollectIdle

SpecConc == ConcInit /\ [][ConcNext]_vars

\* C14: no step of interleaved generate_gnn_recommendations calls changes an
\* attribute of the shared model object or the graph data, and a call that
\* ends has an outcome the same call has when it runs alone.
C14_InferenceLeavesSharedStateUnchanged ==
  [][/\ GNN_MODEL' = GNN_MODEL
     /\ GNN_GRAPH_DATA' = GNN_GRAPH_DATA
     /\ \A t \in Threads :
          (inflight'[t] # inflight[t] /\ inflight'[t].pc = "done") =>
            \E out \in GenerateGnnRecommendations(inflight'[t].username, GNN_MODEL,
                                                  GNN_GRAPH_DATA, inflight'[t].limit) :
              out.raised = inflight'[t].raised /\ out.result = inflight'[t].result]_vars

(***************************************************************************)
(* A further property of the inference function (checked under SpecRec).   *)
(***************************************************************************)
\* The smaller of two numbers.
Min(a, b) == IF a <= b THEN a ELSE b

\* C19: for a known user and every limit >= 1 the call returns a list and
\* raises nothing, and the list has min(limit, number of items the user has
\* not interacted with) entries.
C19_KnownUserGetsMinOfLimitAndUnseenCount ==
  (call # None /\ CallOfKnownUser) =>
    /\ call.raised = "none"
    /\ Len(call.result) = Min(call.limit, Len(posts) - Cardinality(SeenOfCall))

(***************************************************************************)
(* data_collector.populate_database, run and run again over the same       *)
(* upstream data.                                                          *)
(***************************************************************************)
MaxRuns == 2

\* The owner entry of a post of /posts/summary/get: absent, or a user id with a
\* username (the username of that id or of another).
OwnerDicts ==
  {None} \cup {[id |-> i, username |-> UsernameOf(j)] : i \in UserIds, j \in UserIds}

\* The lists an interaction endpoint returns: up to MaxInter items
\* {user_id, post_id}, here all for one post; an item may come twice.
ItemLists ==
  UNION {[1..k -> {[user_id |-> u, post_id |-> p] : u \in UserIds}] :
           k \in 0..MaxInter, p \in PostIds}

\* What the API serves: the first n users, the first m posts, the first post
\* with an owner entry, and one item list, served by every interaction endpoint.
Upstreams ==
  {[users_data |-> [i \in 1..n |-> User(100 + i)],
    posts_data |-> [i \in 1..m |-> [id |-> 200 + i, owner |-> IF i = 1 THEN o ELSE None]],
    interaction_data |-> [t \in InteractionTypes |-> items]] :
     n \in 0..MaxUsers, m \in 0..MaxPosts, o \in OwnerDicts, items \in ItemLists}

Ids(table) == {table[i].id : i \in DOMAIN table}

\* users.id is the primary key and users.username is UNIQUE.
UsersConstraintsHold(table) ==
  \A i, j \in DOMAIN table :
    i # j => (table[i].id # table[j].id /\ table[i].username # table[j].username)

\* The loop of step 1 (lines 87-90).
RECURSIVE UsersLoop(_, _)
UsersLoop(users_data, st) ==
  IF users_data = <<>> THEN st
  ELSE
    LET user_data == Head(users_data)
    IN IF user_data.id \notin st.existing_users
       THEN UsersLoop(Tail(users_data),
              [existing_users |-> st.existing_users \cup {user_data.id},
               new_users |-> Append(st.new_users,
                               [id |-> user_data.id, username |-> user_data.username])])
       ELSE UsersLoop(Tail(users_data), st)

\* upsert_user(db, user_data): db.add(user); db.commit(); an IntegrityError is
\* answered with db.rollback() and the table stays as it was.
UpsertUser(table, user_data) ==
  LET user == [id |-> user_data.id, username |-> user_data.username]
  IN IF UsersConstraintsHold(Append(table, user)) THEN Append(table, user) ELSE table

\* The loop of step 2 (lines 101-107).
RECURSIVE PostsLoop(_, _)
PostsLoop(posts_data, st) ==
  IF posts_data = <<>> THEN st
  ELSE
    LET post_data == Head(posts_data)
    IN IF post_data.id \in st.existing_posts
       THEN PostsLoop(Tail(posts_data), st)
       ELSE
         LET owner == post_data.owner
             st1 == IF owner # None /\ owner.id \notin st.existing_users
                    THEN [st EXCEPT !.db_users = UpsertUser(@, owner),
                                    !.existing_users = @ \cup {owner.id}]
                    ELSE st
             post == [id |-> post_data.id,
                      owner_username |-> IF owner = None THEN None ELSE owner.username]
         IN PostsLoop(Tail(posts_data),
              [st1 EXCEPT !.new_posts = Append(@, post),
                          !.existing_posts = @ \cup {post_data.id}])

\* posts.owner_username is a foreign key on users.username (or NULL).
PostsConstraintsHold(table, new_posts) ==
  \A i \in DOMAIN new_posts :
    \/ new_posts[i].owner_username = None
    \/ \E j \in DOMAIN table : table[j].username = new_posts[i].owner_username

\* The loop of step 3 for one interaction type (lines 128-142).
RECURSIVE InteractionsLoop(_, _, _, _)
InteractionsLoop(interaction_data, interaction_type, c, st) ==
  IF interaction_data = <<>> THEN st
  ELSE
    LET item == Head(interaction_data)
        pair == <<item.user_id, item.post_id>>
    IN IF /\ item.user_id \in c.existing_users
          /\ item.post_id \in c.existing_posts
          /\ pair \notin st.existing_interactions
       THEN InteractionsLoop(Tail(interaction_data), interaction_type, c,
              [existing_interactions |-> st.existing_interactions \cup {pair},
               new_interactions |->
                 Append(st.new_interactions,
                        Interaction(item.user_id, item.post_id, interaction_type))])
       ELSE InteractionsLoop(Tail(interaction_data), interaction_type, c, st)

\* interactions.user_id and interactions.post_id are foreign keys.
InteractionsConstraintsHold(user_table, post_table, new_interactions) ==
  \A i \in DOMAIN new_interactions :
    /\ new_interactions[i].user_id \in Ids(user_table)
    /\ new_interactions[i].post_id \in Ids(post_table)

\* populate_database at its first line; run counts the runs, inserted lists
\* the interaction rows the runs committed.
CollectorAtStart(run, inserted) ==
  [pc |-> "users", existing_users |-> {}, existing_posts |-> {}, types_left |-> <<>>,
   run |-> run, inserted |-> inserted]

\* An empty database and the collector about to run.
CollectInit ==
  /\ users = <<>>
  /\ posts = <<>>
  /\ interactions = {}
  /\ built = None
  /\ artifact = NoArtifact
  /\ TrainIdle
  /\ ServeIdle
  /\ upstream \in Upstreams
  /\ collector = CollectorAtStart(1, <<>>)
  /\ fetch = None

\* Step 1 (lines 84-94).
PopulateUsers ==
  /\ collector.pc = "users"
  /\ LET st == UsersLoop(upstream.users_data,
                         [existing_users |-> Ids(users), new_users |-> <<>>])
     IN IF UsersConstraintsHold(users \o st.new_users)
        THEN /\ users' = users \o st.new_users
             /\ collector' = [collector EXCEPT !.pc = "posts",
                                               !.existing_users = st.existing_users]
        ELSE \* IntegrityError at db.commit(): the handler of line 151 rolls back
             /\ collector' = [collector EXCEPT !.pc = "failed",
                                               !.existing_users = st.existing_users]
             /\ UNCHANGED users
  /\ UNCHANGED <<posts, interactions, upstream, fetch, built, trainVars, serveVars>>

\* Step 2 (lines 98-111), the owner upserts included.
PopulatePosts ==
  /\ collector.pc = "posts"
  /\ LET st == PostsLoop(upstream.posts_data,
                         [db_users |-> users,
                          existing_users |-> collector.existing_users,
                          existing_posts |-> Ids(posts),
                          new_posts |-> <<>>])
     IN /\ users' = st.db_users
        /\ IF PostsConstraintsHold(st.db_users, st.new_posts)
           THEN /\ posts' = posts \o [i \in DOMAIN st.new_posts |-> Post(st.new_posts[i].id)]
                /\ collector' = [collector EXCEPT !.pc = "interactions",
                                                  !.existing_users = st.existing_users,
                                                  !.existing_posts = st.existing_posts,
                                                  !.types_left = TypeOrder]
           ELSE /\ collector' = [collector EXCEPT !.pc = "failed",
                                                  !.existing_users = st.existing_users,
                                                  !.existing_posts = st.existing_posts]
                /\ UNCHANGED posts
  /\ UNCHANGED <<interactions, upstream, fetch, built, trainVars, serveVars>>

\* Step 3 for the next interaction type (lines 121-147).
PopulateInteractions ==
  /\ collector.pc = "interactions"
  /\ LET interaction_type == Head(collector.types_left)
         stored == {r \in interactions : r.interaction_type = interaction_type}
         st == InteractionsLoop(upstream.interaction_data[interaction_type],
                 interaction_type, collector,
                 [existing_interactions |-> {<<r.user_id, r.post_id>> : r \in stored},
                  new_interactions |-> <<>>])
     IN IF InteractionsConstraintsHold(users, posts, st.new_interactions)
        THEN /\ interactions' = interactions \cup Range(st.new_interactions)
             /\ collector' =
                  [collector EXCEPT
                     !.types_left = Tail(@),
                     !.pc = IF Tail(collector.types_left) = <<>> THEN "done" ELSE @,
                     !.inserted = @ \o st.new_interactions]
        ELSE /\ collector' = [collector EXCEPT !.pc = "failed"]
             /\ UNCHANGED interactions
  /\ UNCHANGED <<users, posts, upstream, fetch, built, trainVars, serveVars>>

\* The script is run again over the same upstream data.
RunAgain ==
  /\ collector.pc \in {"done", "failed"}
  /\ collector.run < MaxRuns
  /\ collector' = CollectorAtStart(collector.run + 1, collector.inserted)
  /\ UNCHANGED <<dbVars, upstream, fetch, built, trainVars, serveVars>>

CollectNext == PopulateUsers \/ PopulatePosts \/ PopulateInteractions \/ RunAgain

SpecCollect == CollectInit /\ [][CollectNext]_vars

\* C20: whenever populate_database processes interactions, every id of
\* existing_users and of existing_posts is the id of a row of the database;
\* every interaction row of the database references a user row and a post
\* row; and no two committed rows have the same (user_id, post_id,
\* interaction_type), across repeated runs and failed owner upserts.
C20_KnownIdSetsMatchDatabaseRows ==
  /\ collector.pc = "interactions" =>
       /\ collector.existing_users \subseteq KnownUserIds
       /\ collector.existing_posts \subseteq KnownPostIds
  /\ \A r \in interactions : r.user_id \in KnownUserIds /\ r.post_id \in KnownPostIds
  /\ \A i, j \in DOMAIN collector.inserted :
       i # j => collector.inserted[i] # collector.inserted[j]

(***************************************************************************)
(* The paginated fetch loops: data_collector.fetch_paginated_data and      *)
(* data_loader._fetch_paginated_data.                                      *)
(***************************************************************************)
MaxPages == 3
MaxRequests == 6

\* The endpoints the two modules fetch: one plain, one whose path carries the
\* resonance_algorithm query (data_loader.py line 63).
Endpoints == {"/posts/summary/get", "/posts/like?resonance_algorithm"}

\* "resonance_algorithm" in endpoint
IsResonance(endpoint) == endpoint = "/posts/like?resonance_algorithm"

\* The items the source serves for page p of its `pages` non-empty pages: the
\* page's items, and the empty list beyond the last page.
PageContent(pages, p) == IF p \in 1..pages THEN <<p>> ELSE <<>>

\* The page a request names; a URL without page parameter is answered with
\* the source's first page.
PageServed(request) == IF request.page = None THEN 1 ELSE request.page.number

\* data_loader.py lines 25-27: the URL of the request; for an endpoint with
\* "resonance_algorithm" in it the URL is rebuilt without page and page_size.
LoaderUrl(endpoint, page) ==
  IF IsResonance(endpoint)
  THEN [endpoint |-> endpoint, page |-> None]
  ELSE [endpoint |-> endpoint, page |-> [number |-> page]]

\* data_collector.py lines 41-45: request_params always holds the page.
CollectorUrl(endpoint, page) ==
  [endpoint |-> endpoint, page |-> [number |-> page]]

\* if max_pages is not None and page > max_pages
PageLimitReached(max_pages, page) == max_pages # None /\ page > max_pages.value

\* A call of one of the two functions at its first line.
FetchAtStart(fn, endpoint, max_pages) ==
  [fn |-> fn, endpoint |-> endpoint, max_pages |-> max_pages, page |-> 1,
   all_data |-> <<>>, requests |-> <<>>, pc |-> "loop"]

\* A source of up to MaxPages pages and a call: fetch_paginated_data with
\* max_pages None or a number, or _fetch_paginated_data.
FetchInit ==
  /\ users = <<>>
  /\ posts = <<>>
  /\ interactions = {}
  /\ built = None
  /\ artifact = NoArtifact
  /\ TrainIdle
  /\ ServeIdle
  /\ collector = None
  /\ \E n \in 0..MaxPages : upstream = [pages |-> n]
  /\ \E endpoint \in Endpoints :
       \/ \E max_pages \in {None} \cup {[value |-> k] : k \in 0..MaxPages} :
            fetch = FetchAtStart("collector", endpoint, max_pages)
       \/ fetch = FetchAtStart("loader", endpoint, None)

\* What one request does to the locals: the response is an error (the except
\* branches break), an empty page (break) or items (extend, page += 1).
AfterRequest(f, url, failed) ==
  LET content == PageContent(upstream.pages, PageServed(url))
      asked == [f EXCEPT !.requests = Append(@, url)]
  IN IF failed \/ content = <<>>
     THEN [asked EXCEPT !.pc = "returned"]
     ELSE [asked EXCEPT !.all_data = @ \o content, !.page = @ + 1]

\* One iteration of the while loop of data_collector.fetch_paginated_data
\* (lines 36-65).
CollectorFetchPage ==
  /\ fetch.fn = "collector"
  /\ fetch.pc = "loop"
  /\ Len(fetch.requests) < MaxRequests
  /\ IF PageLimitReached(fetch.max_pages, fetch.page)
     THEN fetch' = [fetch EXCEPT !.pc = "returned"]
     ELSE \E failed \in BOOLEAN :
            fetch' = AfterRequest(fetch, CollectorUrl(fetch.endpoint, fetch.page), failed)
  /\ UNCHANGED <<dbVars, upstream, collector, built, trainVars, serveVars>>

\* One iteration of the while loop of data_loader._fetch_paginated_data
\* (lines 24-46).
LoaderFetchPage ==
  /\ fetch.fn = "loader"
  /\ fetch.pc = "loop"
  /\ Len(fetch.requests) < MaxRequests
  /\ \E failed \in BOOLEAN :
       fetch' = AfterRequest(fetch, LoaderUrl(fetch.endpoint, fetch.page), failed)
  /\ UNCHANGED <<dbVars, upstream, collector, built, trainVars, serveVars>>

FetchNext == CollectorFetchPage \/ LoaderFetchPage

SpecFetch == FetchInit /\ [][FetchNext]_vars

\* C21: fetch_paginated_data with max_pages set issues at most max_pages
\* requests; _fetch_paginated_data requests no URL twice and, over a source of
\* n pages, issues at most n + 1 requests (the pages and the empty page that
\* ends the loop), for every endpoint.
C21_FetchLoopsAreBounded ==
  /\ (fetch.fn = "collector" /\ fetch.max_pages # None) =>
       Len(fetch.requests) <= fetch.max_pages.value
  /\ fetch.fn = "loader" =>
       /\ \A i, j \in DOMAIN fetch.requests : i # j => fetch.requests[i] # fetch.requests[j]
       /\ Len(fetch.requests) <= upstream.pages + 1

====
